---- MODULE Spec2Model ----
(***************************************************************************)
(* A model of src/src/parser.rs, the nom-based JSON decoder.                *)
(*                                                                         *)
(* Text is a sequence of one-character strings.  A parser takes the whole  *)
(* input s and the 1-based index p of the first character it may read      *)
(* (Rust's remaining slice is SubSeq(s, p, Len(s))) and returns either     *)
(*   [ok |-> TRUE,  rest |-> q, val |-> v]     Ok((&s[q..], v))             *)
(*   [ok |-> FALSE, at |-> q, cut |-> b, code |-> k]                        *)
(*        Err(Err::Error(Error{input: &s[q..], code: k}))   when b = FALSE  *)
(*        Err(Err::Failure(...))                            when b = TRUE   *)
(* The error type is nom::error::Error (IResult's default), for which      *)
(* context(..) adds nothing and alt returns its last alternative's error.  *)
(* The combinators follow nom 7.1.                                          *)
(***************************************************************************)
EXTENDS Integers, Sequences, FiniteSets, TLC

VARIABLES input, doc, op, result

vars == <<input, doc, op, result>>

----------------------------------------------------------------------------
(* Results *)

Ok(q, v) == [ok |-> TRUE, rest |-> q, val |-> v]

Error(q, k) == [ok |-> FALSE, at |-> q, cut |-> FALSE, code |-> k]

Failure(q, k) == [ok |-> FALSE, at |-> q, cut |-> TRUE, code |-> k]

(* JsonValue *)

Str(t) == [kind |-> "Str", text |-> t]

Boolean(b) == [kind |-> "Boolean", b |-> b]

Null == [kind |-> "Null"]

Num(f) == [kind |-> "Num", f |-> f]

Array(items) == [kind |-> "Array", items |-> items]

Object(m) == [kind |-> "Object", map |-> m]

----------------------------------------------------------------------------
(* Character classes *)

Space == {" ", "\t", "\n", "\r"}

AsciiControl == {"\t", "\n", "\f", "\r"}

Digits == {"0", "1", "2", "3", "4", "5", "6", "7", "8", "9"}

HexDigits == Digits \cup {"a", "b", "c", "d", "e", "f", "A", "B", "C", "D", "E", "F"}

Lower(c) ==
    CASE c = "N" -> "n"
      [] c = "A" -> "a"
      [] c = "I" -> "i"
      [] c = "F" -> "f"
      [] c = "T" -> "t"
      [] c = "Y" -> "y"
      [] OTHER -> c

----------------------------------------------------------------------------
(* Combinators.  An operator's argument is evaluated once, however often   *)
(* its body uses it: With names the value of v for K.                       *)

With(v, K(_)) == K(v)

(* sequencing (delimited, preceded, separated_pair): an Err ends it *)
AndThen(r, K(_)) == IF r.ok THEN K(r) ELSE r

(* alt: an Ok or a Failure ends it; of two Errors the later one is kept *)
OrElse(r, w) == IF r.ok \/ r.cut THEN r ELSE w

(* map *)
Map(r, F(_)) == IF r.ok THEN Ok(r.rest, F(r.val)) ELSE r

----------------------------------------------------------------------------
(* Lexical primitives *)

RECURSIVE SpanIn(_, _, _)
SpanIn(s, p, C) ==
    IF p <= Len(s) /\ s[p] \in C THEN SpanIn(s, p + 1, C) ELSE p

RECURSIVE SpanNotIn(_, _, _)
SpanNotIn(s, p, C) ==
    IF p <= Len(s) /\ s[p] \notin C THEN SpanNotIn(s, p + 1, C) ELSE p

IsAt(s, p, C) == p <= Len(s) /\ s[p] \in C

multispace0(s, p) == SpanIn(s, p, Space)

tag(t, s, p) ==
    IF /\ p + Len(t) - 1 <= Len(s)
       /\ \A i \in 1..Len(t) : s[p + i - 1] = t[i]
    THEN Ok(p + Len(t), t)
    ELSE Error(p, "Tag")

tag_no_case(t, s, p) ==
    IF /\ p + Len(t) - 1 <= Len(s)
       /\ \A i \in 1..Len(t) : Lower(s[p + i - 1]) = Lower(t[i])
    THEN Ok(p + Len(t), SubSeq(s, p, p + Len(t) - 1))
    ELSE Error(p, "Tag")

take_while_m_n(m, n, C, s, p) ==
    With(SpanIn(s, p, C) - p, LAMBDA k :
        IF k < m THEN Error(p, "TakeWhileMN")
        ELSE IF k <= n THEN Ok(p + k, SubSeq(s, p, p + k - 1))
        ELSE Ok(p + n, SubSeq(s, p, p + n - 1)))

----------------------------------------------------------------------------
(* Strings *)

normal(s, p) ==
    With(SpanNotIn(s, p, {"\\", "\""} \cup AsciiControl), LAMBDA q :
        IF q = p THEN Error(p, "TakeTill1") ELSE Ok(q, SubSeq(s, p, q - 1)))

HexMin == 5

HexMax == 5

parse_hex(s, p) ==
    AndThen(tag(<<"u">>, s, p), LAMBDA pk :
        take_while_m_n(HexMin, HexMax, HexDigits \cup {"u"}, s, p))

EscapeTags == {"\"", "\\", "/", "b", "f", "n", "r", "t"}

escapable(s, p) ==
    IF IsAt(s, p, EscapeTags) THEN Ok(p + 1, <<s[p]>>) ELSE parse_hex(s, p)

(* escaped(normal, '\\', escapable): the loop, entered at i with the        *)
(* combinator's input starting at start                                     *)
RECURSIVE escapedLoop(_, _, _)
escapedLoop(s, start, i) ==
    IF i > Len(s) THEN Ok(Len(s) + 1, SubSeq(s, start, Len(s)))
    ELSE With(normal(s, i), LAMBDA n :
        IF n.ok
        THEN IF n.rest > Len(s)
             THEN Ok(Len(s) + 1, SubSeq(s, start, Len(s)))
             ELSE escapedLoop(s, start, n.rest)
        ELSE IF s[i] = "\\"
             THEN IF i + 1 > Len(s)
                  THEN Error(start, "Escaped")
                  ELSE AndThen(escapable(s, i + 1), LAMBDA e :
                          IF e.rest > Len(s)
                          THEN Ok(Len(s) + 1, SubSeq(s, start, Len(s)))
                          ELSE escapedLoop(s, start, e.rest))
             ELSE IF i = start
                  THEN Error(start, "Escaped")
                  ELSE Ok(i, SubSeq(s, start, i - 1)))

parse_str(s, p) == escapedLoop(s, p, p)

Quote == <<"\"">>

EmptyQuoted == <<"\"", "\"">>

(* alt((tag("\"\""), delimited(tag("\""), parse_str, tag("\"")))): the      *)
(* first alternative's output is the text the tag matched                   *)
quoted(s, p) ==
    OrElse(tag(EmptyQuoted, s, p),
           AndThen(tag(Quote, s, p), LAMBDA o :
           AndThen(parse_str(s, o.rest), LAMBDA b :
           AndThen(tag(Quote, s, b.rest), LAMBDA c : Ok(c.rest, b.val)))))

string(s, p) == Map(quoted(s, p), Str)

key(s, p) == quoted(s, p)

----------------------------------------------------------------------------
(* Numbers *)

Signs == {"+", "-"}

SkipSign(s, p) == IF IsAt(s, p, Signs) THEN p + 1 ELSE p

(* the end of the mantissa starting at p, or 0 when there is none:          *)
(* digit1 ('.' digit0)?  |  '.' digit1                                      *)
Mantissa(s, p) ==
    IF IsAt(s, p, Digits)
    THEN With(SpanIn(s, p, Digits), LAMBDA q :
            IF IsAt(s, q, {"."}) THEN SpanIn(s, q + 1, Digits) ELSE q)
    ELSE IF IsAt(s, p, {"."}) /\ IsAt(s, p + 1, Digits)
         THEN SpanIn(s, p + 1, Digits)
         ELSE 0

recognize_float(s, p) ==
    With(Mantissa(s, SkipSign(s, p)), LAMBDA m :
        IF m = 0 THEN Error(p, "Float")
        ELSE IF IsAt(s, m, {"e", "E"})
             THEN With(SkipSign(s, m + 1), LAMBDA x :
                     IF IsAt(s, x, Digits)
                     THEN With(SpanIn(s, x, Digits), LAMBDA q : Ok(q, SubSeq(s, p, q - 1)))
                     ELSE Failure(p, "Float"))
             ELSE Ok(m, SubSeq(s, p, m - 1)))

recognize_float_or_exceptions(s, p) ==
    OrElse(recognize_float(s, p),
    OrElse(tag_no_case(<<"n", "a", "n">>, s, p),
    OrElse(tag_no_case(<<"i", "n", "f">>, s, p),
    OrElse(tag_no_case(<<"i", "n", "f", "i", "n", "i", "t", "y">>, s, p),
           Error(p, "Float")))))

DigitVal(c) ==
    CASE c = "0" -> 0 [] c = "1" -> 1 [] c = "2" -> 2 [] c = "3" -> 3
      [] c = "4" -> 4 [] c = "5" -> 5 [] c = "6" -> 6 [] c = "7" -> 7
      [] c = "8" -> 8 [] c = "9" -> 9

RECURSIVE DigitsVal(_)
DigitsVal(ds) ==
    IF ds = <<>> THEN 0
    ELSE 10 * DigitsVal(SubSeq(ds, 1, Len(ds) - 1)) + DigitVal(ds[Len(ds)])

RECURSIVE Normal10(_, _, _)
Normal10(neg, mant, exp) ==
    IF mant = 0 THEN [neg |-> neg, mant |-> 0, exp |-> 0]
    ELSE IF mant % 10 = 0 THEN Normal10(neg, mant \div 10, exp + 1)
         ELSE [neg |-> neg, mant |-> mant, exp |-> exp]

(* str::parse::<f64> of a recognised lexeme: the decimal it denotes, as     *)
(* (-1)^neg * mant * 10^exp with mant not divisible by 10, or NaN/infinity. *)
ParseF64(lex) ==
    IF Lower(lex[1]) = "n" THEN [nan |-> TRUE]
    ELSE IF Lower(lex[1]) = "i" THEN [inf |-> TRUE]
    ELSE
    LET a == SkipSign(lex, 1)
        b == SpanIn(lex, a, Digits)
        c == IF IsAt(lex, b, {"."}) THEN SpanIn(lex, b + 1, Digits) ELSE b
        frac == SubSeq(lex, b + 1, c - 1)
        ev == DigitsVal(SubSeq(lex, SkipSign(lex, c + 1), Len(lex)))
        e == IF IsAt(lex, c + 1, {"-"}) THEN 0 - ev ELSE ev
    IN  Normal10(lex[1] = "-", DigitsVal(SubSeq(lex, a, b - 1) \o frac), e - Len(frac))

double(s, p) == Map(recognize_float_or_exceptions(s, p), ParseF64)

num(s, p) == Map(double(s, p), Num)

----------------------------------------------------------------------------
(* Literals *)

True_(x) == TRUE

False_(x) == FALSE

Null_(x) == Null

boolean(s, p) ==
    Map(OrElse(Map(tag(<<"t", "r", "u", "e">>, s, p), True_),
               Map(tag(<<"f", "a", "l", "s", "e">>, s, p), False_)),
        Boolean)

null(s, p) == Map(tag(<<"n", "u", "l", "l">>, s, p), Null_)

----------------------------------------------------------------------------
(* Containers and the value dispatcher *)

(* a collect that keeps the first pair of a key *)
collect_firstWins(pairs) ==
    [k \in {pairs[i][1] : i \in 1..Len(pairs)} |->
        LET first == CHOOSE i \in 1..Len(pairs) :
                         /\ pairs[i][1] = k
                         /\ \A j \in 1..(i - 1) : pairs[j][1] # k
        IN  pairs[first][2]]

(* collect::<HashMap<String, JsonValue>>: inserts in order, a later insert  *)
(* of a key replaces the earlier one.                                       *)
collect(pairs) ==
    [k \in {pairs[i][1] : i \in 1..Len(pairs)} |->
        LET last == CHOOSE i \in 1..Len(pairs) :
                        /\ pairs[i][1] = k
                        /\ \A j \in (i + 1)..Len(pairs) : pairs[j][1] # k
        IN  pairs[last][2]]

RECURSIVE value(_, _)
RECURSIVE array(_, _)
RECURSIVE object(_, _)
RECURSIVE separated_list0(_, _, _)
RECURSIVE separated_tail(_, _, _, _)

(* a dispatcher that lacks the boolean alternative *)
valueAlt_noBoolean(s, p) ==
    OrElse(string(s, p),
    OrElse(num(s, p),
    OrElse(null(s, p),
    OrElse(array(s, p),
           object(s, p)))))

(* alt((string, num, boolean, null, array, object)) *)
valueAlt(s, p) ==
    OrElse(string(s, p),
    OrElse(num(s, p),
    OrElse(boolean(s, p),
    OrElse(null(s, p),
    OrElse(array(s, p),
           object(s, p))))))

value(s, p) ==
    AndThen(valueAlt(s, multispace0(s, p)), LAMBDA r :
        Ok(multispace0(s, r.rest), r.val))

(* delimited(multispace0, value, multispace0), the array's element parser *)
element(s, p) ==
    AndThen(value(s, multispace0(s, p)), LAMBDA r :
        Ok(multispace0(s, r.rest), r.val))

(* separated_pair(key, tag(":"), value), the object's element parser *)
separated_pair(s, p) ==
    AndThen(key(s, p), LAMBDA k :
    AndThen(tag(<<":">>, s, k.rest), LAMBDA c :
    AndThen(value(s, c.rest), LAMBDA v : Ok(v.rest, <<k.val, v.val>>))))

item(of, s, p) == IF of = "array" THEN element(s, p) ELSE separated_pair(s, p)

(* a list that consumes a separator followed by no element *)
separated_tail_dropsSeparator(of, s, i, res) ==
    With(tag(<<",">>, s, i), LAMBDA sep :
        IF ~sep.ok THEN Ok(i, res)
        ELSE With(item(of, s, sep.rest), LAMBDA f :
                IF f.ok THEN separated_tail(of, s, f.rest, Append(res, f.val))
                ELSE IF f.cut THEN f ELSE Ok(sep.rest, res)))

(* separated_list0 after an element: the list so far is res and the input   *)
(* is at i.  A separator that is followed by no element is not consumed.    *)
separated_tail(of, s, i, res) ==
    With(tag(<<",">>, s, i), LAMBDA sep :
        IF ~sep.ok THEN Ok(i, res)
        ELSE With(item(of, s, sep.rest), LAMBDA f :
                IF f.ok THEN separated_tail(of, s, f.rest, Append(res, f.val))
                ELSE IF f.cut THEN f ELSE Ok(i, res)))

separated_list0(of, s, p) ==
    With(item(of, s, p), LAMBDA f :
        IF f.ok THEN separated_tail(of, s, f.rest, <<f.val>>)
        ELSE IF f.cut THEN f ELSE Ok(p, <<>>))

array(s, p) ==
    AndThen(tag(<<"[">>, s, p), LAMBDA o :
    AndThen(separated_list0("array", s, o.rest), LAMBDA l :
    AndThen(tag(<<"]">>, s, l.rest), LAMBDA c : Ok(c.rest, Array(l.val)))))

object(s, p) ==
    AndThen(tag(<<"{">>, s, p), LAMBDA o :
    AndThen(Map(separated_list0("object", s, o.rest), collect), LAMBDA l :
    AndThen(tag(<<"}">>, s, l.rest), LAMBDA c : Ok(c.rest, Object(l.val)))))

(* an entry point that takes any value as the document *)
jsonAlt_anyValue(s, p) == valueAlt(s, p)

jsonAlt(s, p) == OrElse(object(s, p), array(s, p))

(* an entry point that leaves the whitespace after the document *)
json_keepsTrailingSpace(s, p) ==
    AndThen(jsonAlt(s, multispace0(s, p)), LAMBDA r : Ok(r.rest, r.val))

json(s, p) ==
    AndThen(jsonAlt(s, multispace0(s, p)), LAMBDA r :
        Ok(multispace0(s, r.rest), r.val))

----------------------------------------------------------------------------
(* Source documents.  A document is described by the tree it was written    *)
(* from and by where whitespace was put, and rendered to the text that is   *)
(* handed to the parser.                                                    *)

MaxWidth == 2

MaxDepth == 1

MaxTokens == 3

MaxBody == 6

(* a scalar as written, with the value JSON gives it; the payload of a      *)
(* string is the text between its quotes, escapes undecoded                 *)
Lit(text, v) == [t |-> "lit", text |-> text, val |-> v]

(* a container as written: its items or pairs, and whether a comma follows  *)
(* the last of them                                                         *)
Arr(items, tc) == [t |-> "arr", items |-> items, tc |-> tc]

Obj(pairs, tc) == [t |-> "obj", pairs |-> pairs, tc |-> tc]

Dec(neg, mant, exp) == [neg |-> neg, mant |-> mant, exp |-> exp]

One == Lit(<<"1">>, Num(Dec(FALSE, 1, 0)))

True == Lit(<<"t", "r", "u", "e">>, Boolean(TRUE))

StrA == Lit(<<"\"", "a", "\"">>, Str(<<"a">>))

Leaves == {One, True}

Scalars ==
    { One, True, StrA,
      Lit(<<"\"", "\"">>, Str(<<>>)),
      Lit(<<"\"", "\\", "n", "\"">>, Str(<<"\\", "n">>)),
      Lit(<<"-", "2", ".", "5", "e", "1">>, Num(Dec(TRUE, 25, 0))),
      Lit(<<"0">>, Num(Dec(FALSE, 0, 0))),
      Lit(<<"f", "a", "l", "s", "e">>, Boolean(FALSE)),
      Lit(<<"n", "u", "l", "l">>, Null) }

KeyA == <<"\"", "a", "\"">>

KeyB == <<"\"", "b", "\"">>

Keys == {KeyA, KeyB}

KeyText(k) == SubSeq(k, 2, Len(k) - 1)

SeqsUpTo(S, n) == UNION {[1..k -> S] : k \in 0..n}

Flat ==
    {Arr(is, c) : is \in SeqsUpTo(Leaves, MaxWidth), c \in BOOLEAN}
    \cup {Obj(ps, c) : ps \in SeqsUpTo(Keys \X Leaves, MaxWidth), c \in BOOLEAN}

Wraps(c) == {Arr(<<One, c>>, FALSE), Arr(<<c>>, TRUE), Obj(<<<<KeyB, c>>>>, FALSE)}

RECURSIVE Nested(_)
Nested(d) ==
    IF d = 0 THEN Flat
    ELSE LET prev == Nested(d - 1) IN prev \cup UNION {Wraps(c) : c \in prev}

Places == {"afterOpen", "beforeClose", "beforeComma", "afterComma", "beforeColon", "afterColon"}

ColonComma == {"afterColon", "afterComma"}

Layouts == {{}} \cup {{x} : x \in Places} \cup {ColonComma, Places}

Sp(lay, place) == IF place \in lay THEN <<" ">> ELSE <<>>

RECURSIVE Render(_, _)
RECURSIVE RenderItems(_, _, _, _)

RenderItem(n, x, lay) ==
    IF n.t = "arr" THEN Render(x, lay)
    ELSE x[1] \o Sp(lay, "beforeColon") \o <<":">> \o Sp(lay, "afterColon") \o Render(x[2], lay)

RenderItems(n, xs, i, lay) ==
    IF i > Len(xs) THEN <<>>
    ELSE (IF i > 1 THEN Sp(lay, "beforeComma") \o <<",">> \o Sp(lay, "afterComma") ELSE <<>>)
         \o RenderItem(n, xs[i], lay) \o RenderItems(n, xs, i + 1, lay)

Render(n, lay) ==
    IF n.t = "lit" THEN n.text
    ELSE (IF n.t = "arr" THEN <<"[">> ELSE <<"{">>)
         \o Sp(lay, "afterOpen")
         \o RenderItems(n, IF n.t = "arr" THEN n.items ELSE n.pairs, 1, lay)
         \o (IF n.tc THEN Sp(lay, "beforeComma") \o <<",">> ELSE <<>>)
         \o Sp(lay, "beforeClose")
         \o (IF n.t = "arr" THEN <<"]">> ELSE <<"}">>)

RECURSIVE HasTrailingComma(_)
HasTrailingComma(n) ==
    /\ n.t # "lit"
    /\ \/ n.tc
       \/ IF n.t = "arr"
          THEN \E i \in 1..Len(n.items) : HasTrailingComma(n.items[i])
          ELSE \E i \in 1..Len(n.pairs) : HasTrailingComma(n.pairs[i][2])

(* the last pair of ps with the key of pair i is pair i *)
IsLast(ps, i) == \A j \in (i + 1)..Len(ps) : ps[j][1] # ps[i][1]

(* the value JSON gives the tree n, a later pair of a key replacing an      *)
(* earlier one                                                              *)
RECURSIVE Expected(_)
Expected(n) ==
    IF n.t = "lit" THEN n.val
    ELSE IF n.t = "arr" THEN Array([i \in 1..Len(n.items) |-> Expected(n.items[i])])
    ELSE Object([k \in {KeyText(n.pairs[i][1]) : i \in 1..Len(n.pairs)} |->
                    Expected(n.pairs[CHOOSE i \in 1..Len(n.pairs) :
                                        KeyText(n.pairs[i][1]) = k /\ IsLast(n.pairs, i)][2])])

(* nesting, element counts and element kinds of a value *)
RECURSIVE Shape(_)
Shape(v) ==
    IF v.kind = "Array" THEN <<"Array", [i \in 1..Len(v.items) |-> Shape(v.items[i])]>>
    ELSE IF v.kind = "Object" THEN <<"Object", [k \in DOMAIN v.map |-> Shape(v.map[k])]>>
    ELSE <<v.kind>>

Pres == {<<>>, <<" ">>, <<"\n", "\t">>}

Posts == {<<>>, <<" ">>, <<"\r", "\n">>}

Tails == {<<>>, <<"1">>, <<"x">>, <<"]">>, <<"[", "]">>, <<",">>}

(* Documents: a tree and a layout, written without surroundings; a tree     *)
(* written tightly between leading whitespace, trailing whitespace and a    *)
(* tail of further text; a scalar alone, in an array, and as a pair's value *)
TreeDocs ==
    {[shape |-> "tree", root |-> n, lay |-> l, pre |-> <<>>, post |-> <<>>, tail |-> <<>>] :
        n \in Nested(MaxDepth), l \in Layouts}

FramedDocs ==
    {[shape |-> "framed", root |-> n, lay |-> {}, pre |-> a, post |-> b, tail |-> c] :
        n \in {Arr(<<>>, FALSE), Arr(<<One, True>>, FALSE), Obj(<<<<KeyA, One>>>>, FALSE), StrA, One},
        a \in Pres, b \in Posts, c \in Tails}

Around(x) == {x, Arr(<<x>>, FALSE), Arr(<<One, x>>, FALSE), Obj(<<<<KeyA, x>>>>, FALSE)}

ScalarDocs ==
    {[shape |-> "scalar", root |-> n, lay |-> {}, pre |-> <<>>, post |-> <<>>, tail |-> <<>>] :
        n \in UNION {Around(x) : x \in Scalars}}

RECURSIVE Flatten(_)
Flatten(ts) == IF ts = <<>> THEN <<>> ELSE Head(ts) \o Flatten(Tail(ts))

KeyAColon == KeyA \o <<":">>

DocTokens ==
    { <<"[">>, <<"]">>, <<"{">>, <<"}">>, <<",">>, <<":">>, <<" ">>, <<"1">>, KeyA, KeyAColon }

ValueTokens ==
    { KeyA, <<"1">>, <<"-">>, <<"+">>, <<".">>, <<"e">>, <<" ">>,
      <<"t", "r", "u", "e">>, <<"f", "a", "l", "s", "e">>, <<"n", "u", "l", "l">>,
      <<"n", "a", "n">>, <<"I", "n", "f">>, <<"[">>, <<"]">>, <<"{">> }

StringChars == {"\"", "\\", "u", "1", "n"}

RawDocs(tokens) ==
    {[shape |-> "raw", toks |-> ts] : ts \in SeqsUpTo(tokens, MaxTokens)}

(* a quote, up to MaxBody characters, and a closing quote *)
QuotedDocs ==
    {[shape |-> "raw", toks |-> <<Quote, body, Quote>>] : body \in SeqsUpTo(StringChars, MaxBody)}

Text(d) ==
    IF d.shape = "raw" THEN Flatten(d.toks)
    ELSE d.pre \o Render(d.root, d.lay) \o d.post \o d.tail

----------------------------------------------------------------------------
(* The state machine: an input text is chosen, then one of the parsers is   *)
(* applied to it from its first character.                                  *)

NotCalled == [ok |-> FALSE, at |-> 0, cut |-> FALSE, code |-> "NotCalled"]

InitOver(docs) ==
    /\ doc \in docs
    /\ input = Text(doc)
    /\ op = "none"
    /\ result = NotCalled

Init == InitOver(TreeDocs \cup FramedDocs \cup ScalarDocs \cup RawDocs(DocTokens))

CallJson ==
    /\ op = "none"
    /\ op' = "json"
    /\ result' = json(input, 1)
    /\ UNCHANGED <<input, doc>>

CallValue ==
    /\ op = "none"
    /\ op' = "value"
    /\ result' = value(input, 1)
    /\ UNCHANGED <<input, doc>>

CallString ==
    /\ op = "none"
    /\ op' = "string"
    /\ result' = string(input, 1)
    /\ UNCHANGED <<input, doc>>

CallKey ==
    /\ op = "none"
    /\ op' = "key"
    /\ result' = key(input, 1)
    /\ UNCHANGED <<input, doc>>

Next == CallJson \/ CallValue \/ CallString \/ CallKey

Spec == Init /\ [][Next]_vars

(* the value dispatcher on token sequences *)
InitValue == InitOver(RawDocs(ValueTokens))

SpecValue == InitValue /\ [][Next]_vars

(* the string parsers on quoted character sequences *)
InitString == InitOver(QuotedDocs)

SpecString == InitString /\ [][Next]_vars

----------------------------------------------------------------------------
(* Properties *)

Called(f) == op = f

(* the index of the first character of s at or after p that is no           *)
(* whitespace, Len(s) + 1 when there is none                                *)
FirstNonSpace(s, p) ==
    CHOOSE i \in p..(Len(s) + 1) :
        /\ i = Len(s) + 1 \/ s[i] \notin Space
        /\ \A j \in p..(i - 1) : s[j] \in Space

(* the index of the last character of s before r that is no whitespace,     *)
(* 0 when there is none                                                     *)
LastNonSpace(s, r) ==
    CHOOSE i \in 0..(r - 1) :
        /\ i = 0 \/ s[i] \notin Space
        /\ \A j \in (i + 1)..(r - 1) : s[j] \in Space

(* the value v is the tree n as parsed: scalars as the value dispatcher     *)
(* parses their text, arrays item by item, objects with one entry for each  *)
(* key text, holding the last pair written with that key                    *)
RECURSIVE Agrees(_, _)
Agrees(n, v) ==
    IF n.t = "lit" THEN v = value(n.text, 1).val
    ELSE IF n.t = "arr"
    THEN /\ v.kind = "Array"
         /\ Len(v.items) = Len(n.items)
         /\ \A i \in 1..Len(n.items) : Agrees(n.items[i], v.items[i])
    ELSE /\ v.kind = "Object"
         /\ DOMAIN v.map = {KeyText(n.pairs[i][1]) : i \in 1..Len(n.pairs)}
         /\ \A i \in 1..Len(n.pairs) :
                IsLast(n.pairs, i) => Agrees(n.pairs[i][2], v.map[KeyText(n.pairs[i][1])])

(* C1: a valid JSON document whose root is an array or an object, with      *)
(* whitespace wherever the grammar allows it, is accepted by json, and the  *)
(* tree returned has the nesting, element counts and element kinds of the   *)
(* source text.                                                             *)
C1_ValidDocumentParses ==
    (/\ Called("json")
     /\ doc.shape \in {"tree", "scalar"}
     /\ doc.root.t # "lit"
     /\ ~HasTrailingComma(doc.root))
        => /\ result.ok
           /\ Shape(result.val) = Shape(Expected(doc.root))

(* C2: an object written with whitespace after each colon and after each    *)
(* separating comma, its keys distinct, is accepted, and every key maps to  *)
(* the value written after its colon.                                       *)
C2_SpacedPairsParse ==
    (/\ Called("json")
     /\ doc.shape = "tree"
     /\ doc.lay = ColonComma
     /\ doc.root.t = "obj"
     /\ ~HasTrailingComma(doc.root)
     /\ \A i \in 1..Len(doc.root.pairs) : IsLast(doc.root.pairs, i))
        => /\ result.ok
           /\ result.val.kind = "Object"
           /\ \A i \in 1..Len(doc.root.pairs) :
                /\ KeyText(doc.root.pairs[i][1]) \in DOMAIN result.val.map
                /\ result.val.map[KeyText(doc.root.pairs[i][1])] = Expected(doc.root.pairs[i][2])

(* C3: in an accepted document every object has exactly one entry for each  *)
(* key text written in it, and the entry holds the value of the last pair   *)
(* written with that key; earlier pairs of the key are dropped and the      *)
(* parse succeeds.                                                          *)
C3_LastDuplicateWins ==
    (Called("json") /\ doc.shape # "raw" /\ result.ok) => Agrees(doc.root, result.val)

C3_Witness ==
    /\ Called("json")
    /\ doc.shape = "tree"
    /\ result.ok
    /\ doc.root.t = "obj"
    /\ Len(doc.root.pairs) = 2
    /\ doc.root.pairs[1][1] = doc.root.pairs[2][1]
    /\ doc.root.pairs[1][2] # doc.root.pairs[2][2]
    /\ result.val.map[KeyText(doc.root.pairs[2][1])] = doc.root.pairs[2][2].val

(* C4: a document with a comma right before the closing delimiter of a      *)
(* container, with or without whitespace between the two, at the root or in *)
(* a nested container, is rejected by json.                                 *)
C4_TrailingCommaRejected ==
    (Called("json") /\ doc.shape # "raw" /\ HasTrailingComma(doc.root)) => ~result.ok

C4_Witness ==
    /\ Called("json")
    /\ doc.shape = "tree"
    /\ doc.lay = {"beforeClose"}
    /\ doc.root = Arr(<<One, Arr(<<One, True>>, TRUE)>>, FALSE)
    /\ ~result.ok

FirstToken(ts) ==
    IF \E i \in 1..Len(ts) : ts[i] # <<" ">>
    THEN ts[CHOOSE i \in 1..Len(ts) : ts[i] # <<" ">> /\ \A j \in 1..(i - 1) : ts[j] = <<" ">>]
    ELSE <<>>

(* the value an array holds last, or an object holds under the key a *)
Held(v) == IF v.kind = "Array" THEN v.items[Len(v.items)] ELSE v.map[KeyText(KeyA)]

(* C5: json rejects every input whose first token after leading whitespace  *)
(* is a scalar; the same scalar written as an element of an array or as the *)
(* value of a pair is accepted and yields a node of the scalar's kind.      *)
C5_ScalarOnlyInsideContainer ==
    /\ (Called("json") /\ doc.shape # "raw" /\ doc.root.t = "lit") => ~result.ok
    /\ (Called("json") /\ doc.shape = "raw" /\ FirstToken(doc.toks) \in {<<"1">>, KeyA, KeyAColon})
            => ~result.ok
    /\ (Called("json") /\ doc.shape = "scalar" /\ doc.root.t # "lit")
            => /\ result.ok
               /\ \E x \in Scalars : /\ doc.root \in Around(x)
                                     /\ Held(result.val).kind = x.val.kind

C5_Witness ==
    /\ Called("json")
    /\ doc.shape = "framed"
    /\ doc.root = StrA
    /\ doc.pre = <<" ">>
    /\ doc.tail = <<>>
    /\ ~result.ok

(* C6: when json fails on an object whose pair has no value after its colon *)
(* the failure it returns is at the position right after the colon.         *)
C6_DeepestFailureReported ==
    (/\ Called("json")
     /\ doc.shape = "raw"
     /\ doc.toks = <<<<"{">>, KeyAColon, <<"}">>>>)
        => /\ ~result.ok
           /\ result.at = Len(<<"{">> \o KeyAColon) + 1

(* C7: when json succeeds the remaining text starts at an index of the      *)
(* input and not at whitespace, and what was consumed is leading            *)
(* whitespace, one container that json parses alone to the same value, and  *)
(* the whitespace after it; text after the document is left unconsumed and  *)
(* does not make the parse fail.                                            *)
C7_RemainderAfterDocument ==
    /\ (Called("json") /\ result.ok) =>
          LET a == FirstNonSpace(input, 1)
              e == LastNonSpace(input, result.rest)
          IN  /\ result.rest \in (a + 2)..(Len(input) + 1)
              /\ ~IsAt(input, result.rest, Space)
              /\ <<input[a], input[e]>> \in {<<"[", "]">>, <<"{", "}">>}
              /\ json(SubSeq(input, a, e), 1) = Ok(e - a + 2, result.val)
    /\ (Called("json") /\ doc.shape = "framed" /\ doc.root.t # "lit") =>
          /\ result.ok
          /\ result.rest = Len(input) - Len(doc.tail) + 1

C7_Witness ==
    /\ Called("json")
    /\ doc.shape = "framed"
    /\ doc.pre = <<"\n", "\t">>
    /\ doc.post = <<"\r", "\n">>
    /\ doc.tail = <<"x">>
    /\ result.ok
    /\ result.rest = Len(input)

(* every backslash of s[i..e] starts an escape: one of the eight indicator  *)
(* characters, or u and exactly four hexadecimal digits                     *)
RECURSIVE EscapesWellFormed(_, _, _)
EscapesWellFormed(s, i, e) ==
    IF i > e THEN TRUE
    ELSE IF s[i] # "\\" THEN EscapesWellFormed(s, i + 1, e)
    ELSE /\ i + 1 <= e
         /\ IF s[i + 1] = "u"
            THEN /\ i + 5 <= e
                 /\ \A j \in (i + 2)..(i + 5) : s[j] \in HexDigits
                 /\ EscapesWellFormed(s, i + 6, e)
            ELSE /\ s[i + 1] \in EscapeTags
                 /\ EscapesWellFormed(s, i + 2, e)

(* C8: in an accepted string or key a backslash followed by u is followed   *)
(* by exactly four hexadecimal digits, and every other backslash by one of  *)
(* the indicators ", \, /, b, f, n, r, t.                                   *)
C8_UnicodeEscapeNeedsFourHex ==
    (op \in {"string", "key"} /\ result.ok)
        => EscapesWellFormed(input, 2, result.rest - 2)

(* C9: the text stored for an accepted string or key is the source text     *)
(* strictly between the opening and the closing quote, the empty string     *)
(* included.                                                                *)
C9_StoredTextBetweenQuotes ==
    (op \in {"string", "key"} /\ result.ok)
        => /\ input[1] = "\""
           /\ input[result.rest - 1] = "\""
           /\ (IF Called("string") THEN result.val.text ELSE result.val)
                  = SubSeq(input, 2, result.rest - 2)

(* The value dispatcher by one character of lookahead: the parser that the  *)
(* table gives for the first character after whitespace is the only one     *)
(* tried.  numberFirst holds the characters that select the number parser   *)
(* and nullFirst those that select the null parser, after the number        *)
(* parser where a character is in both.                                     *)
tableAlt(numberFirst, nullFirst, s, p) ==
    IF p > Len(s) THEN Error(p, "Alt")
    ELSE IF s[p] = "\"" THEN string(s, p)
    ELSE IF s[p] \in numberFirst \cap nullFirst THEN OrElse(num(s, p), null(s, p))
    ELSE IF s[p] \in numberFirst THEN num(s, p)
    ELSE IF s[p] \in {"t", "f"} THEN boolean(s, p)
    ELSE IF s[p] \in nullFirst THEN null(s, p)
    ELSE IF s[p] = "[" THEN array(s, p)
    ELSE IF s[p] = "{" THEN object(s, p)
    ELSE Error(p, "Alt")

tableValue(numberFirst, nullFirst, s, p) ==
    AndThen(tableAlt(numberFirst, nullFirst, s, multispace0(s, p)), LAMBDA r :
        Ok(multispace0(s, r.rest), r.val))

(* the two results accept alike, and when they accept, the same text with   *)
(* the same value                                                           *)
SameOutcome(r1, r2) == r1.ok = r2.ok /\ (r1.ok => r1 = r2)

TableFirst == Digits \cup {"-", "\"", "t", "f", "n", "[", "{"}

(* C10 as stated: the ordered dispatcher is the table '"' -> string, digit  *)
(* or '-' -> number, t/f -> boolean, n -> null, '[' or '{' -> container,    *)
(* and accepts no value that begins with another character.                 *)
C10_TableDispatch ==
    Called("value") =>
        /\ SameOutcome(result, tableValue(Digits \cup {"-"}, {"n"}, input, 1))
        /\ result.ok => input[FirstNonSpace(input, 1)] \in TableFirst

(* C10 as amended: the table also sends '+', '.', and the first letters of  *)
(* the float grammar's nan and inf (n, N, i, I) to the number parser, n     *)
(* going on to the null parser when the number parser does not match.       *)
C10_TableDispatchAmended ==
    Called("value") =>
        /\ SameOutcome(result,
                       tableValue(Digits \cup {"-", "+", ".", "n", "N", "i", "I"}, {"n"}, input, 1))
        /\ result.ok =>
              input[FirstNonSpace(input, 1)] \in TableFirst \cup {"+", ".", "N", "i", "I"}

C10_Witness ==
    /\ Called("value")
    /\ result.ok
    /\ result.val.kind = "Num"
    /\ input[1] \in {"+", "."}
    /\ result.rest = Len(input) + 1

====
